---- MODULE Spec2Model ----
(***************************************************************************)
(* The chat client of the Gaia mentorship application (the ChatInterface   *)
(* component and services/api.ts), together with the server-side handoff   *)
(* state machine of spec section 4.3, which the client talks to.           *)
(*                                                                         *)
(* Every handler of the component is one action up to its first await; the *)
(* continuation after the await is a second action, taken when the request *)
(* resolves or rejects.  Values a handler captured in its closure before   *)
(* the await (sourceTab, userMessage, currentGoddess) travel in the record *)
(* of the request in flight.  A request is sent, then processed by the     *)
(* server, then resolved or rejected at the client; requests in flight are *)
(* processed and answered in any order.                                    *)
(***************************************************************************)
EXTENDS Naturals, Sequences, FiniteSets, TLC

VARIABLES
    messagesByGoddess,      \* useState<ApiChatHistory>
    activeTab,              \* useState<GoddessKey>('gaia')
    currentGoddess,         \* useState<GoddessKey>('gaia')
    inputText,              \* useState('')
    isHydrating,            \* useState(true)
    isSending,              \* useState(false)
    error,                  \* useState<string | null>(null)
    pendingRecommendation,  \* useState<GoddessKey | null>(null)
    pendingTabSwitch,       \* useState<GoddessKey | null>(null)
    isHandoffActioning,     \* useState(false)
    tokenFetcherRef,        \* useRef<TokenFetcher | null>: TRUE when set
    isAuthenticated,        \* useAuth0().isAuthenticated
    audience,               \* VITE_AUTH0_AUDIENCE is defined
    historyReq,             \* GET /api/chat/history: NULL or its phase
    chatReq,                \* POST /api/chat: NoRequest or the request in flight
    handoffReq,             \* POST /api/chat/handoff: NoRequest or the request in flight
    resetReqs,              \* POST /api/chat/reset: how many are sent, how many processed
    srvStage,               \* server-side handoff state
    srvSuggested,           \* server-side suggested persona
    delivered,              \* the documents the server's responses have cited so far
    now,                    \* the client clock, one tick per accepted send
    last,                   \* the handler step taken last
    authCalls,              \* withAuth: where each call stands
    tokens,                 \* the tokens getToken has returned so far
    wire,                   \* the requests apiClient.request has issued
    isLoading,              \* useAuth0().isLoading
    path,                   \* the route the router is at
    userSync                \* App's syncUser: GET /api/user

vars == << messagesByGoddess, activeTab, currentGoddess, inputText, isHydrating,
           isSending, error, pendingRecommendation, pendingTabSwitch,
           isHandoffActioning, tokenFetcherRef, isAuthenticated, audience,
           historyReq, chatReq, handoffReq, resetReqs,
           srvStage, srvSuggested, delivered, now, last,
           authCalls, tokens, wire, isLoading, path, userSync >>

clientVars == << messagesByGoddess, activeTab, currentGoddess, inputText, isHydrating,
                 isSending, error, pendingRecommendation, pendingTabSwitch,
                 isHandoffActioning >>

NULL == "null"

\* ------------------------------------------------------------------ bounds

\* How many of the five tabs the model lets the user and the server name.
NumTabs == 2
\* How many messages the user sends in one run.
MaxSends == 2
\* How many reset requests are in flight at once.
MaxResets == 1
\* How many different tokens Auth0 hands out.
MaxTokens == 2

\* ------------------------------------------------------------ configuration

goddessTabs == << "gaia", "athena", "aphrodite", "artemis", "tyche" >>

Goddess == { goddessTabs[i] : i \in 1..NumTabs }

GoddessOrNull == Goddess \cup {NULL}

\* What the user types: nothing, blanks only, a word, a word in blanks.
Texts == { << >>, << " " >>, << " ", "a", " " >> }

isBlank(c) == c = " "

RECURSIVE trimStart(_)
trimStart(s) == IF s # << >> /\ isBlank(Head(s)) THEN trimStart(Tail(s)) ELSE s

RECURSIVE trimEnd(_)
trimEnd(s) ==
    IF s # << >> /\ isBlank(s[Len(s)]) THEN trimEnd(SubSeq(s, 1, Len(s) - 1)) ELSE s

trim(s) == trimEnd(trimStart(s))

\* The error banner's texts.
ErrHistory == "Unable to load your earlier conversation. Start fresh with Gaia!"
ErrSend == "Gaia is taking a quick pause. Try again in a moment."
ErrHandoff == "Could not complete the handoff. Please try again."

FallbackContent == "I ran into a technical issue reaching my scrolls. Let's retry shortly."

emptyHistory == [ g \in Goddess |-> << >> ]

\* A handoff flag that is never raised.
isHandoffPendingNever == FALSE

isHandoffPending == pendingRecommendation # NULL
isTabSwitchPending == pendingTabSwitch # NULL

\* v ?? d
orElse(v, d) == IF v = NULL THEN d ELSE v

\* A value that is left out (undefined), and `list ?? []`.
Undefined == << "undefined" >>

\* `list ?? [placeholder]`: a missing list is filled in by the client.
orPlaceholder(list) == IF list = Undefined THEN << "placeholder" >> ELSE list

orEmpty(list) == IF list = Undefined THEN << >> ELSE list

\* What handleSend(overrideMessage?) is called with: the send button and the
\* Enter key, its only callers, pass nothing.
OverrideMessages == { Undefined }

\* No request in flight.
NoRequest == [ phase |-> "none" ]

\* ------------------------------------------------------------------ messages

\* interface ChatMessage: id, role, content, goddess, intent, citations, suggested.
ChatMessage(id, role, content, goddess, intent, citations, suggested) ==
    [ id |-> id, role |-> role, content |-> content, goddess |-> goddess,
      intent |-> intent, citations |-> citations, suggested |-> suggested ]

\* handleSend's userMessage: id `user-${nowISO}`, no citations.
userMessageOf(nowISO, trimmed, sourceTab) ==
    ChatMessage(<< "user", nowISO >>, "user", trimmed, sourceTab, NULL, << >>, NULL)

\* handleSend's fallbackMessage, built in its catch block.
fallbackMessageOf(t, sourceTab) ==
    ChatMessage(<< "error", t >>, "assistant", FallbackContent, sourceTab, NULL, << >>, NULL)

\* Array.isArray(list) ? list : undefined
arrayOrUndefined(list) == IF list # Undefined THEN list ELSE Undefined

\* The assistantMessage of handleSend's awaiting_confirmation branch.
handoffMessageOf(t, response, sourceTab) ==
    ChatMessage(<< "assistant", t >>, "assistant", response.message,
                orElse(response.goddess, sourceTab),
                orElse(response.intent, "handoff_request"),
                orEmpty(response.citations),
                response.suggested)
    @@ [ handoffReason |-> arrayOrUndefined(response.handoff_reason) ]

\* The assistantMessage of handleSend's normal flow.
replyMessageOf(t, response) ==
    ChatMessage(<< "assistant", t >>, "assistant", response.message,
                orElse(response.goddess, "gaia"),
                response.intent,
                orEmpty(response.citations),
                NULL)

\* The assistantMessage of handleHandoffAction.
handoffReplyOf(t, response, capturedGoddess) ==
    ChatMessage(<< "assistant", t >>, "assistant", response.message,
                orElse(response.goddess, capturedGoddess),
                response.intent,
                orEmpty(response.citations),
                NULL)

\* prev[tab].filter(msg => true): nothing is taken out.
filterOutNothing(msgs, id) == msgs

\* prev[tab].filter(msg => msg.id !== id)
RECURSIVE filterOutId(_, _)
filterOutId(msgs, id) ==
    IF msgs = << >> THEN << >>
    ELSE IF Head(msgs).id # id
         THEN << Head(msgs) >> \o filterOutId(Tail(msgs), id)
         ELSE filterOutId(Tail(msgs), id)

\* The updater of handleSend's normal flow: the reply is filed under
\* assistantMessage.goddess, and the user's message moves there with it.
fileReply(prev, sourceTab, userMessage, assistantMessage) ==
    LET destination == assistantMessage.goddess
        moved == IF destination # sourceTab
                 THEN [ prev EXCEPT
                          ![sourceTab] = filterOutId(prev[sourceTab], userMessage.id),
                          ![destination] = Append(prev[destination],
                                                  [ userMessage EXCEPT !.goddess = destination ]) ]
                 ELSE prev
    IN  [ moved EXCEPT ![destination] = Append(moved[destination], assistantMessage) ]

\* [m, ...prev[tab]]: the message is put in front.
prependTo(prev, tab, m) == [ prev EXCEPT ![tab] = << m >> \o prev[tab] ]

\* setMessagesByGoddess(prev => ({...prev, [m.goddess]: [...prev[m.goddess], m]}))
appendTo(prev, tab, m) == [ prev EXCEPT ![tab] = Append(prev[tab], m) ]

\* ------------------------------------------------------------------- server

Docs == << "doc1" >>
CitationsOrNull == { Undefined, Docs }

\* A response of POST /api/chat or POST /api/chat/handoff:
\* {message, goddess, intent, citations, trace: {stage, suggested}}.
ApiChatResponse(goddess, intent, citations, stage, suggested) ==
    [ message |-> "reply", goddess |-> goddess, intent |-> intent,
      citations |-> citations, stage |-> stage, suggested |-> suggested,
      handoff_reason |-> Undefined ]

\* trace.handoff_reason of a proposal: the reason list of the handoff state.
HandoffReason == << "keyword" >>

\* The server's handling of POST /api/chat {message, goddess}: the trace of
\* its answer, which is also the handoff state it moves to.  In state normal
\* the matcher either proposes a persona other than the active one
\* (-> awaiting_confirmation) or a normal reply is composed; in state
\* awaiting_confirmation the conversation is paused and the pending proposal
\* is repeated.
ServerChat(goddess) ==
    IF srvStage = "awaiting_confirmation"
    THEN { [ stage |-> srvStage, suggested |-> srvSuggested ] }
    ELSE { [ stage |-> "awaiting_confirmation", suggested |-> p ] :
             p \in Goddess \ {goddess} }
         \cup
         { [ stage |-> "normal", suggested |-> NULL ] }

\* The responses that carry a trace: a proposal is not grounded in retrieved
\* documents and may leave out goddess and intent; a normal reply names the
\* persona that answers and cites what was retrieved.
ChatResponses(trace) ==
    IF trace.stage = "awaiting_confirmation"
    THEN { [ ApiChatResponse(g, i, Undefined, trace.stage, trace.suggested)
               EXCEPT !.handoff_reason = HandoffReason ] :
             g \in GoddessOrNull, i \in {NULL, "academics"} }
    ELSE { ApiChatResponse(g, "academics", c, trace.stage, trace.suggested) :
             g \in GoddessOrNull, c \in CitationsOrNull }

\* The server's handling of POST /api/chat/handoff {action}: confirm switches
\* the persona to the suggested one, decline leaves it; both end in normal.
\* With no handoff pending there is no transition and the request is refused.
ServerHandoff(action) ==
    IF srvStage # "awaiting_confirmation"
    THEN [ ok |-> FALSE, goddess |-> NULL ]
    ELSE [ ok |-> TRUE, goddess |-> IF action = "confirm" THEN srvSuggested ELSE NULL ]

\* The responses to an accepted handoff action: after confirm the reply comes
\* from the persona switched to; after decline from any, or none is named.
HandoffResponses(action, answer) ==
    IF action = "confirm"
    THEN { ApiChatResponse(answer.goddess, "academics", Docs, "normal", NULL) }
    ELSE { ApiChatResponse(g, "academics", Docs, "normal", NULL) :
             g \in GoddessOrNull }

\* The documents a response cites.
citationsOf(response) ==
    IF response.citations = Undefined THEN { }
    ELSE { response.citations[k] : k \in 1..Len(response.citations) }

\* The documents a list of messages cites.
RECURSIVE citedIn(_)
citedIn(msgs) ==
    IF msgs = << >> THEN { }
    ELSE { Head(msgs).citations[k] : k \in 1..Len(Head(msgs).citations) }
         \cup citedIn(Tail(msgs))

\* What GET /api/chat/history returns: nothing yet, or one earlier exchange
\* logged under one persona.
HistoryResponses ==
    { emptyHistory }
    \cup
    { [ emptyHistory EXCEPT ![g] =
          << ChatMessage(<< "history", 1 >>, "user", << "a" >>, g, NULL, << >>, NULL),
             ChatMessage(<< "history", 2 >>, "assistant", "reply", g, "academics", Docs, NULL) >> ] :
        g \in Goddess }

\* the last assistant message of [...history.gaia, ..., ...history.tyche]
RECURSIVE concatTabs(_, _)
concatTabs(history, i) ==
    IF i > NumTabs THEN << >> ELSE history[goddessTabs[i]] \o concatTabs(history, i + 1)

RECURSIVE findLastAssistant(_)
findLastAssistant(msgs) ==
    IF msgs = << >> THEN << >>
    ELSE IF msgs[Len(msgs)].role = "assistant" THEN << msgs[Len(msgs)] >>
         ELSE findLastAssistant(SubSeq(msgs, 1, Len(msgs) - 1))

latestKey(history) ==
    LET latestAssistant == findLastAssistant(concatTabs(history, 1))
    IN  IF latestAssistant = << >> THEN "gaia" ELSE orElse(latestAssistant[1].goddess, "gaia")

\* ------------------------------------------------------------------ withAuth

\* The AxiosRequestConfig of each caller of withAuth: fetchChatHistory,
\* sendChatMessage, confirmHandoff / declineHandoff, handleReset.
AuthConfigs ==
    { [ url |-> "/api/chat/history", method |-> "GET" ],
      [ url |-> "/api/chat", method |-> "POST" ],
      [ url |-> "/api/chat/handoff", method |-> "POST" ],
      [ url |-> "/api/chat/reset", method |-> "POST" ] }

Token == 1..MaxTokens

NoAuthorization == [ scheme |-> "none", token |-> 0 ]

\* Authorization: `Bearer ${token}`
bearer(token) == [ scheme |-> "Bearer", token |-> token ]

\* A request whose headers are config.headers alone.
requestWithoutToken(config, token) ==
    [ url |-> config.url, method |-> config.method, authorization |-> NoAuthorization ]

\* {...config, headers: {...(config.headers || {}), Authorization: `Bearer ${token}`}}
requestOf(config, token) ==
    [ url |-> config.url, method |-> config.method, authorization |-> bearer(token) ]

idleCall == [ phase |-> "idle", token |-> 0 ]

\* -------------------------------------------------------------------- Init

reqVars == << historyReq, chatReq, handoffReq, resetReqs >>
srvVars == << srvStage, srvSuggested >>
auxVars == << delivered, now >>
envVars == << isAuthenticated, audience >>
authVars == << authCalls, tokens, wire >>
appVars == << isLoading, path, userSync >>

\* The component after its first render and its history effect: the history
\* is being fetched when the token fetcher could be created, and the failure
\* is reported at once when it could not.
Init ==
    /\ messagesByGoddess = emptyHistory
    /\ activeTab = "gaia"
    /\ currentGoddess = "gaia"
    /\ inputText = << >>
    /\ isSending = FALSE
    /\ pendingRecommendation = NULL
    /\ pendingTabSwitch = NULL
    /\ isHandoffActioning = FALSE
    /\ isAuthenticated = TRUE
    /\ audience \in BOOLEAN
    /\ tokenFetcherRef = audience
    /\ isHydrating = audience
    /\ error = IF audience THEN NULL ELSE ErrHistory
    /\ historyReq = IF audience THEN "sent" ELSE NULL
    /\ chatReq = NoRequest
    /\ handoffReq = NoRequest
    /\ resetReqs = [ sent |-> 0, processed |-> 0 ]
    /\ srvStage \in { "normal" }
    /\ srvSuggested = NULL
    /\ delivered = { }
    /\ now = 0
    /\ last = "mount"
    /\ authCalls = [ config \in AuthConfigs |-> idleCall ]
    /\ tokens = { }
    /\ wire = { }
    /\ isLoading = FALSE
    /\ path = "/"
    /\ userSync = "none"

\* ------------------------------------------------------------------ history

\* initialise, after the await: the history replaces the client's.
HistoryLoaded ==
    /\ historyReq = "sent"
    /\ \E history \in HistoryResponses :
         /\ messagesByGoddess' = history
         /\ activeTab' = "gaia"
         /\ currentGoddess' = latestKey(history)
         /\ delivered' = delivered \cup citedIn(concatTabs(history, 1))
    /\ isHydrating' = FALSE
    /\ historyReq' = NULL
    /\ last' = "history:loaded"
    /\ UNCHANGED << inputText, isSending, error, pendingRecommendation, pendingTabSwitch,
                    isHandoffActioning, tokenFetcherRef, envVars, authVars, appVars, chatReq,
                    handoffReq, resetReqs, srvVars, now >>

\* initialise, catch: the token or the request failed.
HistoryFailed ==
    /\ historyReq # NULL
    /\ error' = ErrHistory
    /\ isHydrating' = FALSE
    /\ historyReq' = NULL
    /\ last' = "other"
    /\ UNCHANGED << messagesByGoddess, activeTab, currentGoddess, inputText,
                    isSending, pendingRecommendation, pendingTabSwitch,
                    isHandoffActioning, tokenFetcherRef, envVars, authVars, appVars, chatReq,
                    handoffReq, resetReqs, srvVars, auxVars >>

\* ---------------------------------------------------------------- handleSend

\* <textarea disabled={isSending || isHandoffPending || isTabSwitchPending}>
inputDisabled == isSending \/ isHandoffPending \/ isTabSwitchPending

\* onChange={event => setInputText(event.target.value)}
TypeText ==
    /\ ~inputDisabled
    /\ \E text \in Texts : inputText' = text
    /\ last' = "other"
    /\ UNCHANGED << messagesByGoddess, activeTab, currentGoddess, isHydrating,
                    isSending, error, pendingRecommendation, pendingTabSwitch,
                    isHandoffActioning, tokenFetcherRef, envVars, authVars, appVars, reqVars, srvVars,
                    auxVars >>

\* (overrideMessage ?? inputText).trim()
trimmedOf(overrideMessage) ==
    trim(IF overrideMessage = Undefined THEN inputText ELSE overrideMessage)

\* Early returns that let a blank message through.
sendReturnsEarlyButBlank(overrideMessage) ==
    \/ isSending
    \/ ~isAuthenticated
    \/ isHandoffPending
    \/ isTabSwitchPending

\* The three early returns of handleSend.
sendReturnsEarly(overrideMessage) ==
    \/ trimmedOf(overrideMessage) = << >>
    \/ isSending
    \/ ~isAuthenticated
    \/ isHandoffPending
    \/ isTabSwitchPending

\* A catch block that files the apology under the tab that is open.
sendCaughtOnActiveTab(prev, sourceTab, t) ==
    /\ error' = ErrSend
    /\ messagesByGoddess' = appendTo(prev, activeTab, fallbackMessageOf(t, activeTab))
    /\ isSending' = FALSE

\* A catch block with no finally: isSending is left as it is.
sendCaughtStillSending(prev, sourceTab, t) ==
    /\ error' = ErrSend
    /\ messagesByGoddess' = appendTo(prev, sourceTab, fallbackMessageOf(t, sourceTab))
    /\ isSending' = isSending

\* handleSend's catch and finally, applied to the histories `prev` at time t.
sendCaught(prev, sourceTab, t) ==
    /\ error' = ErrSend
    /\ messagesByGoddess' = appendTo(prev, sourceTab, fallbackMessageOf(t, sourceTab))
    /\ isSending' = FALSE

\* A request that names the persona of the conversation, not the open tab.
chatRequestOfCurrentGoddess(trimmed, sourceTab, userMessage) ==
    [ phase |-> "sent", message |-> trimmed, goddess |-> currentGoddess,
      sourceTab |-> sourceTab, userMessage |-> userMessage,
      trace |-> [ stage |-> NULL, suggested |-> NULL ] ]

\* sendChatMessage(trimmed, sourceTab, token): POST /api/chat with data
\* {message, goddess}; sourceTab and userMessage are what the continuation
\* keeps in its closure, and trace is filled in when the server has answered.
chatRequestOf(trimmed, sourceTab, userMessage) ==
    [ phase |-> "sent", message |-> trimmed, goddess |-> sourceTab,
      sourceTab |-> sourceTab, userMessage |-> userMessage,
      trace |-> [ stage |-> NULL, suggested |-> NULL ] ]

\* What handleSend(overrideMessage) does once it is past its early returns:
\* the optimistic append and the request.  createTokenFetcher throws inside
\* the try when no audience is configured.
sendAccepted(overrideMessage) ==
    LET trimmed == trimmedOf(overrideMessage)
        sourceTab == activeTab
        userMessage == userMessageOf(now + 1, trimmed, sourceTab)
        sent == appendTo(messagesByGoddess, sourceTab, userMessage)
    IN  /\ now' = now + 1
        /\ inputText' = IF overrideMessage = Undefined THEN << >> ELSE inputText
        /\ pendingRecommendation' = NULL
        /\ pendingTabSwitch' = NULL
        /\ IF ~tokenFetcherRef /\ ~audience
           THEN /\ sendCaught(sent, sourceTab, now + 1)
                /\ last' = "handleSend:threw"
                /\ UNCHANGED << tokenFetcherRef, chatReq >>
           ELSE /\ error' = NULL
                /\ messagesByGoddess' = sent
                /\ isSending' = TRUE
                /\ tokenFetcherRef' = TRUE
                /\ chatReq' = chatRequestOf(trimmed, sourceTab, userMessage)
                /\ last' = "handleSend:sent"

\* handleSend(), as the handler: also where the markup disables its callers.
HandleSend ==
    \E overrideMessage \in OverrideMessages :
        IF sendReturnsEarly(overrideMessage)
        THEN /\ last' = "handleSend:return"
             /\ UNCHANGED << clientVars, tokenFetcherRef, envVars, authVars, appVars, reqVars, srvVars,
                             auxVars >>
        ELSE /\ now < MaxSends
             /\ sendAccepted(overrideMessage)
             /\ UNCHANGED << activeTab, currentGoddess, isHydrating, isHandoffActioning,
                             envVars, authVars, appVars, historyReq, handoffReq, resetReqs, srvVars,
                             delivered >>

\* The server handles POST /api/chat and its answer sets out.
ServerProcessChat ==
    /\ chatReq.phase = "sent"
    /\ \E trace \in ServerChat(chatReq.goddess) :
         /\ srvStage' = trace.stage
         /\ srvSuggested' = trace.suggested
         /\ chatReq' = [ chatReq EXCEPT !.phase = "processed", !.trace = trace ]
    /\ last' = "other"
    /\ UNCHANGED << clientVars, tokenFetcherRef, envVars, authVars, appVars, historyReq, handoffReq,
                    resetReqs, auxVars >>

\* A continuation that files the proposal under the tab the message was sent
\* from, whatever persona the response names.
sendResolvedOnSourceTab(response, sourceTab, userMessage) ==
    IF response.stage = "awaiting_confirmation" /\ response.suggested # NULL
    THEN LET assistantMessage == handoffMessageOf(now, response, sourceTab)
         IN  /\ pendingRecommendation' = response.suggested
             /\ messagesByGoddess' =
                    appendTo(messagesByGoddess, sourceTab, assistantMessage)
             /\ last' = "handleSend:awaiting_confirmation"
    ELSE LET assistantMessage == replyMessageOf(now, response)
         IN  /\ messagesByGoddess' =
                    fileReply(messagesByGoddess, sourceTab, userMessage, assistantMessage)
             /\ last' = "handleSend:reply"
             /\ UNCHANGED pendingRecommendation

\* What handleSend does with a response, after the await.
sendResolved(response, sourceTab, userMessage) ==
    IF response.stage = "awaiting_confirmation" /\ response.suggested # NULL
    THEN LET assistantMessage == handoffMessageOf(now, response, sourceTab)
         IN  /\ pendingRecommendation' = response.suggested
             /\ messagesByGoddess' =
                    appendTo(messagesByGoddess, assistantMessage.goddess, assistantMessage)
             /\ last' = "handleSend:awaiting_confirmation"
    ELSE LET assistantMessage == replyMessageOf(now, response)
         IN  /\ messagesByGoddess' =
                    fileReply(messagesByGoddess, sourceTab, userMessage, assistantMessage)
             /\ last' = "handleSend:reply"
             /\ UNCHANGED pendingRecommendation

\* POST /api/chat resolves and handleSend continues, down to its finally.
ChatResolved ==
    /\ chatReq.phase = "processed"
    /\ \E response \in ChatResponses(chatReq.trace) :
         /\ sendResolved(response, chatReq.sourceTab, chatReq.userMessage)
         /\ delivered' = delivered \cup citationsOf(response)
    /\ isSending' = FALSE
    /\ chatReq' = NoRequest
    /\ UNCHANGED << activeTab, currentGoddess, inputText, isHydrating, error,
                    pendingTabSwitch, isHandoffActioning, tokenFetcherRef, envVars, authVars, appVars,
                    historyReq, handoffReq, resetReqs, srvVars, now >>

\* POST /api/chat rejects: the token could not be obtained, the request did
\* not reach the server, or the server's answer was lost on the way back.
ChatRejected ==
    /\ chatReq.phase # "none"
    /\ sendCaught(messagesByGoddess, chatReq.sourceTab, now)
    /\ chatReq' = NoRequest
    /\ last' = "handleSend:catch"
    /\ UNCHANGED << activeTab, currentGoddess, inputText, isHydrating,
                    pendingRecommendation, pendingTabSwitch, isHandoffActioning,
                    tokenFetcherRef, envVars, authVars, appVars, historyReq, handoffReq,
                    resetReqs, srvVars, auxVars >>

\* ------------------------------------------------------- handleHandoffAction

\* The handoff card of the message list: some message of the active tab is an
\* assistant message with intent handoff_request and a suggested persona,
\* while a handoff is pending.
handoffCardShown ==
    /\ isHandoffPending
    /\ \E i \in 1..Len(messagesByGoddess[activeTab]) :
         LET message == messagesByGoddess[activeTab][i]
         IN  /\ message.role = "assistant"
             /\ message.intent = "handoff_request"
             /\ message.suggested # NULL

\* The two early returns of handleHandoffAction.
handoffReturnsEarly == ~tokenFetcherRef \/ pendingRecommendation = NULL

\* A click on "Yes, connect me" or "Maybe later" (disabled while
\* isHandoffActioning): handleHandoffAction up to its await.
HandleHandoffAction ==
    /\ handoffCardShown
    /\ ~isHandoffActioning
    /\ ~handoffReturnsEarly
    /\ \E action \in { "confirm", "decline" } :
         handoffReq' = [ phase |-> "sent", action |-> action,
                         currentGoddess |-> currentGoddess,
                         pendingRecommendation |-> pendingRecommendation,
                         answer |-> [ ok |-> FALSE, goddess |-> NULL ] ]
    /\ isHandoffActioning' = TRUE
    /\ last' = "other"
    /\ UNCHANGED << messagesByGoddess, activeTab, currentGoddess, inputText, isHydrating,
                    isSending, error, pendingRecommendation, pendingTabSwitch,
                    tokenFetcherRef, envVars, authVars, appVars, historyReq, chatReq,
                    resetReqs, srvVars, auxVars >>

\* The server handles POST /api/chat/handoff and its answer sets out.
ServerProcessHandoff ==
    /\ handoffReq.phase = "sent"
    /\ LET answer == ServerHandoff(handoffReq.action)
       IN  /\ handoffReq' = [ handoffReq EXCEPT !.phase = "processed", !.answer = answer ]
           /\ IF answer.ok
              THEN srvStage' = "normal" /\ srvSuggested' = NULL
              ELSE UNCHANGED srvVars
    /\ last' = "other"
    /\ UNCHANGED << clientVars, tokenFetcherRef, envVars, authVars, appVars, historyReq, chatReq,
                    resetReqs, auxVars >>

\* if (response.goddess): the action is not looked at.
handoffSwitchesAnyAction(action, response) == response.goddess # NULL

\* if (action === 'confirm' && response.goddess)
handoffSwitches(action, response) == action = "confirm" /\ response.goddess # NULL

\* What handleHandoffAction does with a response, after the await.
handoffResolved(action, response, capturedGoddess) ==
    LET assistantMessage == handoffReplyOf(now, response, capturedGoddess)
    IN  /\ pendingRecommendation' = NULL
        /\ pendingTabSwitch' = NULL
        /\ messagesByGoddess' =
               appendTo(messagesByGoddess, assistantMessage.goddess, assistantMessage)
        /\ IF handoffSwitches(action, response)
           THEN /\ activeTab' = response.goddess
                /\ currentGoddess' = response.goddess
           ELSE UNCHANGED << activeTab, currentGoddess >>

\* POST /api/chat/handoff resolves and handleHandoffAction continues, down to
\* its finally.
HandoffResolved ==
    /\ handoffReq.phase = "processed"
    /\ handoffReq.answer.ok
    /\ \E response \in HandoffResponses(handoffReq.action, handoffReq.answer) :
         /\ handoffResolved(handoffReq.action, response, handoffReq.currentGoddess)
         /\ delivered' = delivered \cup citationsOf(response)
    /\ isHandoffActioning' = FALSE
    /\ handoffReq' = NoRequest
    /\ last' = "handoff:" \o handoffReq.action
    /\ UNCHANGED << inputText, isHydrating, isSending, error, tokenFetcherRef, envVars, authVars, appVars,
                    historyReq, chatReq, resetReqs, srvVars, now >>

\* A catch block that also gives the proposal up.
HandoffRejectedDismissing ==
    /\ handoffReq.phase # "none"
    /\ error' = ErrHandoff
    /\ isHandoffActioning' = FALSE
    /\ pendingRecommendation' = NULL
    /\ handoffReq' = NoRequest
    /\ last' = "handoff:catch"
    /\ UNCHANGED << messagesByGoddess, activeTab, currentGoddess, inputText, isHydrating,
                    isSending, pendingTabSwitch, tokenFetcherRef,
                    envVars, authVars, appVars, historyReq, chatReq, resetReqs, srvVars, auxVars >>

\* POST /api/chat/handoff rejects: no token, no connection, a refusal by the
\* server, or an answer lost on the way back.
HandoffRejected ==
    /\ handoffReq.phase # "none"
    /\ error' = ErrHandoff
    /\ isHandoffActioning' = FALSE
    /\ handoffReq' = NoRequest
    /\ last' = "handoff:catch"
    /\ UNCHANGED << messagesByGoddess, activeTab, currentGoddess, inputText, isHydrating,
                    isSending, pendingRecommendation, pendingTabSwitch, tokenFetcherRef,
                    envVars, authVars, appVars, historyReq, chatReq, resetReqs, srvVars, auxVars >>

\* ------------------------------------------------------------- tab switching

\* onClick={() => setActiveTab(tab)}: the click opens the tab at once.
TabClickOpens ==
    /\ \E tab \in Goddess : activeTab' = tab
    /\ last' = "other"
    /\ UNCHANGED << messagesByGoddess, currentGoddess, inputText, isHydrating,
                    isSending, error, pendingRecommendation, pendingTabSwitch,
                    isHandoffActioning, tokenFetcherRef, envVars, authVars, appVars,
                    reqVars, srvVars, auxVars >>

\* onClick={() => setPendingTabSwitch(tab)}: the open tab is recorded too.
TabClickAnyTab ==
    /\ \E tab \in Goddess : pendingTabSwitch' = tab
    /\ last' = "other"
    /\ UNCHANGED << messagesByGoddess, activeTab, currentGoddess, inputText, isHydrating,
                    isSending, error, pendingRecommendation, isHandoffActioning,
                    tokenFetcherRef, envVars, authVars, appVars, reqVars, srvVars, auxVars >>

\* onClick of a goddess tab: if (tab !== activeTab) setPendingTabSwitch(tab)
TabClick ==
    /\ \E tab \in Goddess :
         pendingTabSwitch' = IF tab # activeTab THEN tab ELSE pendingTabSwitch
    /\ last' = "other"
    /\ UNCHANGED << messagesByGoddess, activeTab, currentGoddess, inputText, isHydrating,
                    isSending, error, pendingRecommendation, isHandoffActioning,
                    tokenFetcherRef, envVars, authVars, appVars, reqVars, srvVars, auxVars >>

\* The tab switch card is part of every message of the active tab's list.
tabSwitchCardShown ==
    /\ isTabSwitchPending
    /\ Len(messagesByGoddess[activeTab]) > 0

\* A tab switch that also dismisses the handoff proposal.
tabSwitchActionDismissing(action) ==
    /\ IF action = "confirm" /\ pendingTabSwitch # NULL
       THEN /\ activeTab' = pendingTabSwitch
            /\ currentGoddess' = pendingTabSwitch
       ELSE UNCHANGED << activeTab, currentGoddess >>
    /\ pendingTabSwitch' = NULL
    /\ pendingRecommendation' = NULL

\* handleTabSwitchAction(action): the state it sets and the state it leaves.
tabSwitchAction(action) ==
    /\ IF action = "confirm" /\ pendingTabSwitch # NULL
       THEN /\ activeTab' = pendingTabSwitch
            /\ currentGoddess' = pendingTabSwitch
       ELSE UNCHANGED << activeTab, currentGoddess >>
    /\ pendingTabSwitch' = NULL
    /\ UNCHANGED pendingRecommendation

\* A click on "Yes, switch" or "Stay here".
HandleTabSwitchAction ==
    /\ tabSwitchCardShown
    /\ \E action \in { "confirm", "decline" } : tabSwitchAction(action)
    /\ last' = "other"
    /\ UNCHANGED << messagesByGoddess, inputText, isHydrating, isSending, error,
                    isHandoffActioning, tokenFetcherRef,
                    envVars, authVars, appVars, reqVars, srvVars, auxVars >>

\* ---------------------------------------------------------------- handleReset

\* handleReset up to its await ("Talk with Gaia again" is never disabled).
HandleReset ==
    IF ~tokenFetcherRef
    THEN /\ last' = "other"
         /\ UNCHANGED << clientVars, tokenFetcherRef, envVars, authVars, appVars, reqVars, srvVars, auxVars >>
    ELSE /\ resetReqs.sent + resetReqs.processed < MaxResets
         /\ resetReqs' = [ resetReqs EXCEPT !.sent = @ + 1 ]
         /\ last' = "other"
         /\ UNCHANGED << clientVars, tokenFetcherRef, envVars, authVars, appVars, historyReq,
                         chatReq, handoffReq, srvVars, auxVars >>

\* The server handles POST /api/chat/reset: the conversation state is cleared.
ServerProcessReset ==
    /\ resetReqs.sent > 0
    /\ resetReqs' = [ sent |-> resetReqs.sent - 1, processed |-> resetReqs.processed + 1 ]
    /\ srvStage' = "normal"
    /\ srvSuggested' = NULL
    /\ last' = "other"
    /\ UNCHANGED << clientVars, tokenFetcherRef, envVars, authVars, appVars, historyReq, chatReq,
                    handoffReq, auxVars >>

\* POST /api/chat/reset resolves and handleReset continues.
ResetResolved ==
    /\ resetReqs.processed > 0
    /\ resetReqs' = [ resetReqs EXCEPT !.processed = @ - 1 ]
    /\ currentGoddess' = "gaia"
    /\ activeTab' = "gaia"
    /\ messagesByGoddess' = emptyHistory
    /\ pendingRecommendation' = NULL
    /\ pendingTabSwitch' = NULL
    /\ last' = "handleReset:done"
    /\ UNCHANGED << inputText, isHydrating, isSending, error, isHandoffActioning,
                    tokenFetcherRef, envVars, authVars, appVars, historyReq, chatReq,
                    handoffReq, srvVars, auxVars >>

\* POST /api/chat/reset rejects, before or after the server handled it: only
\* console.error.
ResetRejected ==
    /\ \/ /\ resetReqs.sent > 0
          /\ resetReqs' = [ resetReqs EXCEPT !.sent = @ - 1 ]
       \/ /\ resetReqs.processed > 0
          /\ resetReqs' = [ resetReqs EXCEPT !.processed = @ - 1 ]
    /\ last' = "other"
    /\ UNCHANGED << clientVars, tokenFetcherRef, envVars, authVars, appVars, historyReq,
                    chatReq, handoffReq, srvVars, auxVars >>

\* ---------------------------------------------------------------------- Spec

Next ==
    \/ HistoryLoaded
    \/ HistoryFailed
    \/ TypeText
    \/ HandleSend
    \/ ServerProcessChat
    \/ ChatResolved
    \/ ChatRejected
    \/ HandleHandoffAction
    \/ ServerProcessHandoff
    \/ HandoffResolved
    \/ HandoffRejected
    \/ TabClick
    \/ HandleTabSwitchAction
    \/ HandleReset
    \/ ServerProcessReset
    \/ ResetResolved
    \/ ResetRejected

Spec == Init /\ [][Next]_vars

\* ------------------------------------------------------- withAuth, on its own

chatVarsButLast == << clientVars, tokenFetcherRef, envVars, reqVars, srvVars, auxVars >>

chatVars == << chatVarsButLast, last >>

\* withAuth(config, getToken) is called and awaits getToken(); its callers
\* call it only with a token fetcher at hand.
WithAuthCalled(config) ==
    /\ tokenFetcherRef
    /\ authCalls[config].phase = "idle"
    /\ authCalls' = [ authCalls EXCEPT ![config] = [ phase |-> "token", token |-> 0 ] ]
    /\ UNCHANGED << tokens, wire, chatVars, appVars >>

\* getToken() resolves and withAuth goes on to apiClient.request.
TokenResolved(config) ==
    /\ authCalls[config].phase = "token"
    /\ \E token \in Token :
         /\ tokens' = tokens \cup {token}
         /\ wire' = wire \cup { requestOf(config, token) }
         /\ authCalls' = [ authCalls EXCEPT ![config] = [ phase |-> "request", token |-> token ] ]
    /\ UNCHANGED << chatVars, appVars >>

\* getToken() rejects and so does withAuth.
TokenRejected(config) ==
    /\ authCalls[config].phase = "token"
    /\ authCalls' = [ authCalls EXCEPT ![config] = idleCall ]
    /\ UNCHANGED << tokens, wire, chatVars, appVars >>

\* apiClient.request settles: withAuth returns response.data or rejects.
RequestSettled(config) ==
    /\ authCalls[config].phase = "request"
    /\ authCalls' = [ authCalls EXCEPT ![config] = idleCall ]
    /\ UNCHANGED << tokens, wire, chatVars, appVars >>

NextAuth ==
    \/ \E config \in AuthConfigs : WithAuthCalled(config)
    \/ \E config \in AuthConfigs : TokenResolved(config)
    \/ \E config \in AuthConfigs : TokenRejected(config)
    \/ \E config \in AuthConfigs : RequestSettled(config)

SpecAuth == Init /\ [][NextAuth]_vars

\* ------------------------------------------------------------------ the App

\* The two routes of <Routes>.
Paths == { "/", "/chat" }

\* <Route path="/chat" element={<ChatInterface />} />: the session is not asked.
chatRouteOpen(authenticated) == "ChatInterface"

\* element of <Route path="/chat">
chatRoute(authenticated) ==
    IF authenticated THEN "ChatInterface" ELSE "Navigate to /"

\* element of <Route path="/">, the child of <Homepage>
homeRoute(authenticated) ==
    IF authenticated THEN "ChatInterface" ELSE "GoddessSelection"

\* What App returns.
appRenders(loading, authenticated, p) ==
    IF loading THEN "LoadingSpinner"
    ELSE IF p = "/" THEN homeRoute(authenticated) ELSE chatRoute(authenticated)

AppRenders == appRenders(isLoading, isAuthenticated, path)

\* A ChatInterface that starts under the session `authenticated`: its useState
\* values and its history effect up to the await.  The effect only clears
\* isHydrating when the session is not authenticated.
ChatInterfaceStarts(authenticated) ==
    /\ messagesByGoddess' = emptyHistory
    /\ activeTab' = "gaia"
    /\ currentGoddess' = "gaia"
    /\ inputText' = << >>
    /\ isSending' = FALSE
    /\ pendingRecommendation' = NULL
    /\ pendingTabSwitch' = NULL
    /\ isHandoffActioning' = FALSE
    /\ tokenFetcherRef' = (authenticated /\ audience)
    /\ isHydrating' = (authenticated /\ audience)
    /\ error' = IF authenticated /\ ~audience THEN ErrHistory ELSE NULL
    /\ historyReq' = IF authenticated /\ audience THEN "sent" ELSE NULL
    /\ chatReq' = NoRequest

\* The page as the browser has just loaded it: Auth0 is loading and reports
\* no session yet.  The chat variables are those of a ChatInterface under the
\* session that useAuth0 reports; App decides whether it is on the screen.
InitApp ==
    /\ isLoading = TRUE
    /\ isAuthenticated = FALSE
    /\ path \in Paths
    /\ userSync = "none"
    /\ audience \in BOOLEAN
    /\ messagesByGoddess = emptyHistory
    /\ activeTab = "gaia"
    /\ currentGoddess = "gaia"
    /\ inputText = << >>
    /\ isSending = FALSE
    /\ pendingRecommendation = NULL
    /\ pendingTabSwitch = NULL
    /\ isHandoffActioning = FALSE
    /\ tokenFetcherRef = FALSE
    /\ isHydrating = FALSE
    /\ error = NULL
    /\ historyReq = NULL
    /\ chatReq = NoRequest
    /\ handoffReq = NoRequest
    /\ resetReqs = [ sent |-> 0, processed |-> 0 ]
    /\ srvStage = "normal"
    /\ srvSuggested = NULL
    /\ delivered = { }
    /\ now = 0
    /\ last = "mount"
    /\ authCalls = [ config \in AuthConfigs |-> idleCall ]
    /\ tokens = { }
    /\ wire = { }

\* useAuth0 has finished loading, with or without a session; App's effect
\* starts syncUser when there is one.
Auth0Loaded ==
    /\ isLoading
    /\ isLoading' = FALSE
    /\ \E authenticated \in BOOLEAN :
         /\ isAuthenticated' = authenticated
         /\ userSync' = IF authenticated THEN "token" ELSE userSync
         /\ ChatInterfaceStarts(authenticated)
    /\ last' = "mount"
    /\ UNCHANGED << path, audience, authVars, handoffReq, resetReqs, srvVars, auxVars >>

\* The browser loads the page anew: the redirects of loginWithRedirect and
\* logout, a reload, an address that is typed.
PageLoaded ==
    /\ isLoading' = TRUE
    /\ isAuthenticated' = FALSE
    /\ \E p \in Paths : path' = p
    /\ userSync' = "none"
    /\ ChatInterfaceStarts(FALSE)
    /\ last' = "mount"
    /\ UNCHANGED << audience, authVars, handoffReq, resetReqs, srvVars, auxVars >>

\* The router moves to the other route: its element is mounted afresh.
Navigated ==
    /\ ~isLoading
    /\ \E p \in Paths \ {path} : path' = p
    /\ ChatInterfaceStarts(isAuthenticated)
    /\ last' = "mount"
    /\ UNCHANGED << isLoading, envVars, userSync, authVars, handoffReq, resetReqs,
                    srvVars, auxVars >>

\* <Navigate to="/" replace />
RedirectedHome ==
    /\ AppRenders = "Navigate to /"
    /\ path' = "/"
    /\ last' = "other"
    /\ UNCHANGED << clientVars, tokenFetcherRef, isLoading, envVars, userSync, authVars,
                    reqVars, srvVars, auxVars >>

\* syncUser: getAccessTokenSilently() resolves and GET /api/user is sent.
UserSyncTokenResolved ==
    /\ userSync = "token"
    /\ userSync' = "sent"
    /\ last' = "other"
    /\ UNCHANGED << chatVarsButLast, isLoading, path, authVars >>

\* syncUser: getAccessTokenSilently() rejects and nothing is sent.
UserSyncTokenRejected ==
    /\ userSync = "token"
    /\ userSync' = "none"
    /\ last' = "other"
    /\ UNCHANGED << chatVarsButLast, isLoading, path, authVars >>

\* syncUser: GET /api/user settles.
UserSyncSettled ==
    /\ userSync = "sent"
    /\ userSync' = "none"
    /\ last' = "other"
    /\ UNCHANGED << chatVarsButLast, isLoading, path, authVars >>

\* The App and, of the chat, the textarea, handleSend and the history effect.
\* The textarea and handleSend are followed on the component whether or not
\* App has it on the screen, so that what the component itself does without
\* a session is followed too.
NextApp ==
    \/ Auth0Loaded
    \/ PageLoaded
    \/ Navigated
    \/ RedirectedHome
    \/ UserSyncTokenResolved
    \/ UserSyncTokenRejected
    \/ UserSyncSettled
    \/ TypeText
    \/ HandleSend
    \/ HistoryLoaded
    \/ HistoryFailed

SpecApp == InitApp /\ [][NextApp]_vars

\* ---------------------------------------------------------- the page reloaded

\* The component mounted again after a reload, the server still waiting for
\* the answer to a proposal it made before: the state of the client is that
\* of a first render, with the history being fetched.
InitReload ==
    /\ messagesByGoddess = emptyHistory
    /\ activeTab = "gaia"
    /\ currentGoddess = "gaia"
    /\ inputText = << >>
    /\ isSending = FALSE
    /\ pendingRecommendation = NULL
    /\ pendingTabSwitch = NULL
    /\ isHandoffActioning = FALSE
    /\ isAuthenticated = TRUE
    /\ audience = TRUE
    /\ tokenFetcherRef = TRUE
    /\ isHydrating = TRUE
    /\ error = NULL
    /\ historyReq = "sent"
    /\ chatReq = NoRequest
    /\ handoffReq = NoRequest
    /\ resetReqs = [ sent |-> 0, processed |-> 0 ]
    /\ srvStage = "awaiting_confirmation"
    /\ srvSuggested \in Goddess
    /\ delivered = { }
    /\ now = 0
    /\ last = "mount"
    /\ authCalls = [ config \in AuthConfigs |-> idleCall ]
    /\ tokens = { }
    /\ wire = { }
    /\ isLoading = FALSE
    /\ path = "/"
    /\ userSync = "none"

SpecReload == InitReload /\ [][Next]_vars

\* -------------------------------------------------------------------- claims

isPrefix(s, t) == Len(s) <= Len(t) /\ SubSeq(t, 1, Len(s)) = s

lastOf(s) == s[Len(s)]

withoutId(msgs, id) == SelectSeq(msgs, LAMBDA m : m.id # id)

isApology(m, tab) ==
    /\ m.role = "assistant"
    /\ m.content = FallbackContent
    /\ m.goddess = tab
    /\ m.citations = << >>

\* The requests in flight that change the conversation on the server.
inFlight ==
    (IF chatReq.phase # "none" THEN 1 ELSE 0)
    + (IF handoffReq.phase # "none" THEN 1 ELSE 0)
    + resetReqs.sent + resetReqs.processed

\* C1: a decline that completes leaves activeTab and currentGoddess as they
\* were before it, whatever persona the response names.
C1_DeclineKeepsPersona ==
    [][ last' = "handoff:decline" => UNCHANGED << activeTab, currentGoddess >> ]_vars

\* A decline has completed and its reply was filed under a persona that is
\* not the open tab.
C1_DeclinedElsewhere ==
    /\ last = "handoff:decline"
    /\ \E g \in Goddess \ {activeTab} :
         /\ messagesByGoddess[g] # << >>
         /\ lastOf(messagesByGoddess[g]).id = << "assistant", now >>
         /\ lastOf(messagesByGoddess[g]).suggested = NULL
         /\ lastOf(messagesByGoddess[g]).citations = Docs

\* C2: when a confirm completes, activeTab and currentGoddess are the persona
\* that pendingRecommendation held when the user confirmed.
C2_ConfirmSwitchesToSuggested ==
    [][ (last' = "handoff:confirm" /\ handoffReq.phase = "processed") =>
          /\ activeTab' = handoffReq.pendingRecommendation
          /\ currentGoddess' = handoffReq.pendingRecommendation ]_vars

\* C3: while pendingRecommendation is set, a call of handleSend appends no
\* message to any history, issues no POST /api/chat and leaves the handoff
\* pending.
C3_SendPausedWhilePending ==
    [][ ( /\ pendingRecommendation # NULL
          /\ last' \in { "handleSend:return", "handleSend:sent", "handleSend:threw" } )
        => UNCHANGED << messagesByGoddess, chatReq, pendingRecommendation >> ]_vars

\* handleSend was called while a handoff was pending, and returned.
C3_CalledWhilePending ==
    /\ last = "handleSend:return"
    /\ pendingRecommendation # NULL
    /\ chatReq.phase = "none"

\* C4, as amended: a handoff becomes pending only by a chat response that
\* proposes one, and stops being pending only by a confirm or a decline that
\* completes or by a reset that completes.
C4_PendingChangesOnlyBy ==
    [][ pendingRecommendation' # pendingRecommendation =>
          \/ /\ pendingRecommendation = NULL
             /\ last' = "handleSend:awaiting_confirmation"
          \/ /\ pendingRecommendation' = NULL
             /\ last' \in { "handoff:confirm", "handoff:decline", "handleReset:done" } ]_vars

\* C4, as claimed: a handoff becomes pending only by a chat response that
\* proposes one, and stops being pending only by a confirm or a decline.
C4_PendingOnlyConfirmOrDecline ==
    [][ pendingRecommendation' # pendingRecommendation =>
          \/ /\ pendingRecommendation = NULL
             /\ last' = "handleSend:awaiting_confirmation"
          \/ /\ pendingRecommendation' = NULL
             /\ last' \in { "handoff:confirm", "handoff:decline" } ]_vars

\* A reset has completed while the user's answer to a proposal was still on
\* its way: the proposal is gone at client and server.
C4_ResetWhileAnswering ==
    /\ last = "handleReset:done"
    /\ handoffReq.phase = "sent"
    /\ pendingRecommendation = NULL
    /\ srvStage = "normal"

\* C5: whenever a handoff is pending, the suggested persona is not the
\* active one.
C5_SuggestedIsNotActive ==
    pendingRecommendation # NULL => pendingRecommendation # activeTab

\* C6: right after a confirm or a decline that completed, no handoff is
\* pending, no handoff action is running and, unless a tab switch is pending,
\* the input is enabled.
C6_NormalAfterHandoff ==
    last \in { "handoff:confirm", "handoff:decline" } =>
        /\ pendingRecommendation = NULL
        /\ ~isHandoffActioning
        /\ (pendingTabSwitch = NULL => ~inputDisabled)

\* C7, as amended: every step leaves each persona's history as a prefix of
\* what it becomes, except that a normal chat reply takes the user's message
\* of its exchange out of the tab it was sent from and appends it, re-keyed,
\* to the history of the persona that answers; that a reset that completes
\* empties every history; and that the history load replaces them all.
C7_AppendOnlyBut ==
    [][ \A g \in Goddess :
          \/ isPrefix(messagesByGoddess[g], messagesByGoddess'[g])
          \/ /\ last' = "handleSend:reply"
             /\ chatReq.phase = "processed"
             /\ g = chatReq.sourceTab
             /\ messagesByGoddess'[g] = withoutId(messagesByGoddess[g], chatReq.userMessage.id)
             /\ \E d \in Goddess \ {g} :
                  isPrefix(Append(messagesByGoddess[d],
                                  [ chatReq.userMessage EXCEPT !.goddess = d ]),
                           messagesByGoddess'[d])
          \/ /\ last' = "handleReset:done"
             /\ messagesByGoddess'[g] = << >>
          \/ last' = "history:loaded" ]_vars

\* C7, as claimed: every step leaves each persona's history as a prefix of
\* what it becomes.
C7_AppendOnly ==
    [][ \A g \in Goddess : isPrefix(messagesByGoddess[g], messagesByGoddess'[g]) ]_vars

\* The first message, sent from gaia's tab, was answered by another persona:
\* it now stands, re-keyed, in that persona's history and gaia's is empty.
C7_UserMessageMoved ==
    /\ last = "handleSend:reply"
    /\ now = 1
    /\ messagesByGoddess["gaia"] = << >>
    /\ \E d \in Goddess \ {"gaia"} :
         /\ Len(messagesByGoddess[d]) = 2
         /\ messagesByGoddess[d][1].id = << "user", 1 >>
         /\ messagesByGoddess[d][1].goddess = d

\* C8: every citation of every message in the histories was delivered by a
\* response of the server, and the messages the client creates (the user's,
\* the apology) cite nothing.
C8_CitationsDelivered ==
    \A g \in Goddess : \A i \in 1..Len(messagesByGoddess[g]) :
        LET m == messagesByGoddess[g][i]
        IN  /\ \A k \in 1..Len(m.citations) : m.citations[k] \in delivered
            /\ m.id[1] \in { "user", "error" } => m.citations = << >>

\* The histories hold a reply that cites a document, a proposal that cites
\* none, and a message of the user.
C8_CitedReply ==
    /\ \E g \in Goddess : \E i \in 1..Len(messagesByGoddess[g]) :
         /\ messagesByGoddess[g][i].id[1] = "assistant"
         /\ messagesByGoddess[g][i].citations = Docs
    /\ \E g \in Goddess : \E i \in 1..Len(messagesByGoddess[g]) :
         /\ messagesByGoddess[g][i].intent = "handoff_request"
         /\ messagesByGoddess[g][i].citations = << >>
    /\ \E g \in Goddess : \E i \in 1..Len(messagesByGoddess[g]) :
         messagesByGoddess[g][i].id[1] = "user"

\* C9: at most one request that changes the conversation on the server is
\* in flight.
C9_OneMutatingRequest == inFlight <= 1

\* C10: when the chat request fails, the step appends exactly one apology
\* (role assistant, no citations) to the history of the tab the message was
\* sent from and leaves every message already there, the user's included;
\* the error banner is set and no request is issued.  When the token fetcher
\* cannot even be created, the user's message and the apology are appended
\* in the same step.
C10_FailureAppendsOneApology ==
    [][ /\ (last' = "handleSend:catch" /\ chatReq.phase # "none") =>
              LET sourceTab == chatReq.sourceTab
              IN  /\ Len(messagesByGoddess'[sourceTab]) = Len(messagesByGoddess[sourceTab]) + 1
                  /\ isPrefix(messagesByGoddess[sourceTab], messagesByGoddess'[sourceTab])
                  /\ isApology(lastOf(messagesByGoddess'[sourceTab]), sourceTab)
                  /\ \A g \in Goddess \ {sourceTab} :
                       messagesByGoddess'[g] = messagesByGoddess[g]
                  /\ error' = ErrSend
                  /\ ~isSending'
                  /\ chatReq' = NoRequest
                  /\ UNCHANGED << historyReq, handoffReq, resetReqs >>
        /\ last' = "handleSend:threw" =>
              LET sourceTab == activeTab
                  before == messagesByGoddess[sourceTab]
                  after == messagesByGoddess'[sourceTab]
              IN  /\ Len(after) = Len(before) + 2
                  /\ isPrefix(before, after)
                  /\ after[Len(before) + 1].role = "user"
                  /\ after[Len(before) + 1].content = trim(inputText)
                  /\ after[Len(before) + 1].citations = << >>
                  /\ isApology(lastOf(after), sourceTab)
                  /\ \A g \in Goddess \ {sourceTab} :
                       messagesByGoddess'[g] = messagesByGoddess[g]
                  /\ error' = ErrSend
                  /\ ~isSending'
                  /\ UNCHANGED reqVars ]_vars

\* A chat request has failed after the user moved to another tab: the
\* apology follows the user's message in the history of the tab the message
\* was sent from.
C10_ApologyAfterUserMessage ==
    /\ last = "handleSend:catch"
    /\ error = ErrSend
    /\ \E g \in Goddess \ {activeTab} :
         /\ Len(messagesByGoddess[g]) >= 2
         /\ lastOf(messagesByGoddess[g]).id = << "error", now >>
         /\ messagesByGoddess[g][Len(messagesByGoddess[g]) - 1].id = << "user", now >>

appGated ==
    /\ AppRenders = "ChatInterface" => isAuthenticated /\ ~isLoading
    /\ isLoading => AppRenders = "LoadingSpinner"
    /\ (~isLoading /\ ~isAuthenticated /\ path = "/chat") => AppRenders = "Navigate to /"
    /\ userSync # "none" => isAuthenticated

\* C14: App puts ChatInterface on the screen, on "/" and on "/chat", only when
\* isAuthenticated holds: it shows nothing but the spinner while Auth0 is
\* loading and an unauthenticated "/chat" is the redirect to "/"; syncUser is
\* under way only with a session; and a handleSend without a session returns
\* at once, with nothing appended and nothing sent.
C14_ChatOnlyWhenAuthenticated ==
    [][ /\ appGated
        /\ appGated'
        /\ AppRenders = "Navigate to /" /\ path' # path /\ ~isLoading' => path' = "/"
        /\ (~isAuthenticated /\ last' \in { "handleSend:return", "handleSend:sent",
                                           "handleSend:threw" })
              => /\ last' = "handleSend:return"
                 /\ UNCHANGED << clientVars, reqVars, auxVars >> ]_vars

\* Without a session, text was typed and handleSend was called: it returned
\* and nothing is on its way.
C14_SendWithoutSession ==
    /\ ~isAuthenticated
    /\ ~isLoading
    /\ AppRenders = "GoddessSelection"
    /\ last = "handleSend:return"
    /\ trim(inputText) # << >>
    /\ ~inputDisabled
    /\ chatReq = NoRequest

\* C15, as claimed: whenever pendingRecommendation is set, the handoff card
\* with its two buttons is rendered in the message list of the active tab.
C15_PendingHandoffHasCard ==
    pendingRecommendation # NULL => handoffCardShown

\* C16, as claimed: whenever pendingTabSwitch is set, the card with "Yes,
\* switch" and "No, stay" is rendered, the history of the active tab being
\* empty or not.
C16_PendingTabSwitchHasCard ==
    pendingTabSwitch # NULL => tabSwitchCardShown

\* The messages of all tabs.
allMessages(history) ==
    UNION { { history[tab][i] : i \in 1..Len(history[tab]) } : tab \in Goddess }

\* C17, as claimed: when the history response is applied, every message that
\* the session has put in the histories is still there and the active tab is
\* the one it was.
C17_HistoryLoadKeepsSession ==
    [][ last' = "history:loaded" =>
          /\ allMessages(messagesByGoddess) \subseteq allMessages(messagesByGoddess')
          /\ activeTab' = activeTab ]_vars

\* C18, as claimed: once a reset has completed, the next thing to happen
\* being the arrival of a response to a chat or handoff request that was sent
\* before it, the histories stay empty, tab and persona stay gaia and no
\* handoff becomes pending.
C18_ResetIsFinal ==
    [][ ( /\ last = "handleReset:done"
          /\ last' \in { "handleSend:reply", "handleSend:awaiting_confirmation",
                         "handleSend:catch", "handoff:confirm", "handoff:decline",
                         "handoff:catch" } )
          => /\ messagesByGoddess' = emptyHistory
             /\ activeTab' = "gaia"
             /\ currentGoddess' = "gaia"
             /\ pendingRecommendation' = NULL ]_vars

\* How often a message with this id occurs across the histories.
occurrences(history, id) ==
    Cardinality(UNION { { << tab, i >> : i \in { j \in 1..Len(history[tab]) :
                                                   history[tab][j].id = id } } :
                        tab \in Goddess })

\* C19: handleSend puts the user's message into the histories exactly once,
\* and when it completes (with a reply filed under the same or another
\* persona, with a handoff proposal or with a failure) on histories that
\* still hold the message once, as they do when no reset and no history load
\* came in between, the message occurs exactly once afterwards.
C19_UserMessageExactlyOnce ==
    [][ /\ last' \in { "handleSend:sent", "handleSend:threw" }
             => occurrences(messagesByGoddess', << "user", now' >>) = 1
        /\ ( /\ last' \in { "handleSend:reply", "handleSend:awaiting_confirmation",
                           "handleSend:catch" }
             /\ chatReq.phase # "none"
             /\ occurrences(messagesByGoddess, chatReq.userMessage.id) = 1 )
             => occurrences(messagesByGoddess', chatReq.userMessage.id) = 1 ]_vars

\* Two messages were sent; the first stayed in gaia's history with its reply
\* and the second was answered by another persona and stands, once, in that
\* persona's history.
C19_SecondMessageMoved ==
    /\ last = "handleSend:reply"
    /\ now = 2
    /\ Len(messagesByGoddess["gaia"]) = 2
    /\ messagesByGoddess["gaia"][1].id = << "user", 1 >>
    /\ \E d \in Goddess \ {"gaia"} :
         /\ Len(messagesByGoddess[d]) = 2
         /\ messagesByGoddess[d][1].id = << "user", 2 >>
    /\ occurrences(messagesByGoddess, << "user", 2 >>) = 1

\* C20, as claimed: with no request in flight and the history loaded, the
\* client has a handoff pending exactly when the server is in state
\* awaiting_confirmation, also after a reload.
C20_PendingAsOnServer ==
    (inFlight = 0 /\ historyReq = NULL)
        => (pendingRecommendation # NULL <=> srvStage = "awaiting_confirmation")

\* C21: a chat response with stage awaiting_confirmation and a suggested
\* persona makes that persona the pending suggestion and appends exactly one
\* assistant message, which carries the suggested persona and the handoff
\* reasons, to the history of response.goddess, or of the source tab when the
\* response names none; the user's message stays in the source tab, and
\* activeTab and currentGoddess are as they were.
C21_ProposalAppendsOneMessage ==
    [][ last' = "handleSend:awaiting_confirmation" =>
          /\ chatReq.trace.stage = "awaiting_confirmation"
          /\ pendingRecommendation' = chatReq.trace.suggested
          /\ \E response \in ChatResponses(chatReq.trace) :
               LET tab == IF response.goddess = NULL THEN chatReq.sourceTab
                          ELSE response.goddess
               IN  /\ Len(messagesByGoddess'[tab]) > 0
                   /\ messagesByGoddess' =
                        [ messagesByGoddess EXCEPT
                            ![tab] = Append(@, lastOf(messagesByGoddess'[tab])) ]
                   /\ lastOf(messagesByGoddess'[tab]).role = "assistant"
                   /\ lastOf(messagesByGoddess'[tab]).goddess = tab
                   /\ lastOf(messagesByGoddess'[tab]).suggested = chatReq.trace.suggested
                   /\ lastOf(messagesByGoddess'[tab]).handoffReason = response.handoff_reason
          /\ isPrefix(messagesByGoddess[chatReq.sourceTab],
                      messagesByGoddess'[chatReq.sourceTab])
          /\ activeTab' = activeTab
          /\ currentGoddess' = currentGoddess ]_vars

\* The first message was sent from gaia's tab and the server proposed a
\* handoff in a response that names athena: the user's message is in gaia's
\* history, the proposal with its reasons in athena's, and gaia's tab is open.
C21_ProposalFiledElsewhere ==
    /\ last = "handleSend:awaiting_confirmation"
    /\ now = 1
    /\ activeTab = "gaia"
    /\ currentGoddess = "gaia"
    /\ pendingRecommendation = "athena"
    /\ Len(messagesByGoddess["gaia"]) = 1
    /\ messagesByGoddess["gaia"][1].id = << "user", 1 >>
    /\ Len(messagesByGoddess["athena"]) = 1
    /\ messagesByGoddess["athena"][1].suggested = "athena"
    /\ messagesByGoddess["athena"][1].handoffReason = HandoffReason

\* C22: a confirm or decline that fails sets the error banner and
\* isHandoffActioning back to false and changes nothing else: the pending
\* suggestion, the histories, activeTab and currentGoddess are as they were,
\* and no request is sent in its place.
C22_FailedHandoffOnlyReports ==
    [][ last' = "handoff:catch" =>
          /\ error' = ErrHandoff
          /\ isHandoffActioning' = FALSE
          /\ pendingRecommendation' = pendingRecommendation
          /\ messagesByGoddess' = messagesByGoddess
          /\ activeTab' = activeTab
          /\ currentGoddess' = currentGoddess
          /\ handoffReq' = NoRequest
          /\ chatReq' = chatReq
          /\ resetReqs' = resetReqs
          /\ historyReq' = historyReq ]_vars

\* A confirm or decline has failed: the banner is up, the suggestion the
\* request was about is still pending and its card is there to try again.
C22_FailedAndStillPending ==
    /\ last = "handoff:catch"
    /\ error = ErrHandoff
    /\ pendingRecommendation # NULL
    /\ ~isHandoffActioning
    /\ handoffCardShown
    /\ inFlight = 0

\* C23, as amended: a handleSend that is called with nothing but blanks
\* typed, while a send is in flight, without a session or while a tab switch
\* is pending changes no state and sends nothing; a handleSend that is
\* accepted calls sendChatMessage once, with no request in flight before it,
\* or not at all when the token fetcher cannot be created; and a request is
\* in flight exactly while isSending holds.
C23_AtMostOneRequestPerMessage ==
    [][ /\ ( /\ last' \in { "handleSend:return", "handleSend:sent", "handleSend:threw" }
             /\ \/ trim(inputText) = << >>
                \/ isSending
                \/ ~isAuthenticated
                \/ pendingTabSwitch # NULL )
             => /\ last' = "handleSend:return"
                /\ UNCHANGED << clientVars, tokenFetcherRef, reqVars, srvVars, auxVars >>
        /\ last' = "handleSend:sent"
             => /\ chatReq.phase = "none"
                /\ chatReq'.phase = "sent"
                /\ chatReq'.message = trim(inputText)
                /\ now' = now + 1
        /\ last' = "handleSend:threw"
             => /\ ~tokenFetcherRef /\ ~audience
                /\ chatReq.phase = "none"
                /\ chatReq' = chatReq
        /\ (chatReq'.phase # "none") = isSending'
        /\ (chatReq'.phase # "none" /\ last' # "handleSend:sent")
             => /\ chatReq.phase # "none"
                /\ chatReq'.userMessage = chatReq.userMessage ]_vars

\* C23, as claimed: every message that handleSend accepts produces a request.
C23_OneRequestPerMessage ==
    [][ last' \in { "handleSend:sent", "handleSend:threw" }
          => chatReq'.phase = "sent" ]_vars

\* handleSend was called while the first message was on its way: it
\* returned, and the one request is still the first.
C23_CalledWhileSending ==
    /\ last = "handleSend:return"
    /\ isSending
    /\ chatReq.phase # "none"
    /\ chatReq.userMessage.id = << "user", 1 >>
    /\ now = 1

C25_SendingEnds ==
    [][ /\ last' \in { "handleSend:reply", "handleSend:awaiting_confirmation",
                      "handleSend:catch", "handleSend:threw" }
             => ~isSending'
        /\ (isSending /\ chatReq'.phase = "none") => ~isSending'
        /\ (isSending' /\ ~isSending) => last' = "handleSend:sent"
        /\ isSending' => chatReq'.phase # "none" ]_vars

\* The second send has ended with a handoff proposal after the first had
\* ended with a failure: isSending is false and no request is on its way.
C25_EndedTwice ==
    /\ last = "handleSend:awaiting_confirmation"
    /\ now = 2
    /\ ~isSending
    /\ chatReq.phase = "none"
    /\ \E tab \in Goddess :
         \E i \in 1..Len(messagesByGoddess[tab]) :
            messagesByGoddess[tab][i].id = << "error", 1 >>

\* C26, as claimed: currentGoddess equals activeTab in every reachable state.
C26_HeaderMatchesTab ==
    currentGoddess = activeTab

\* The messages of the open tab under which the confirm and decline buttons
\* are rendered.
actionableCards ==
    { i \in 1..Len(messagesByGoddess[activeTab]) :
        /\ isHandoffPending
        /\ messagesByGoddess[activeTab][i].role = "assistant"
        /\ messagesByGoddess[activeTab][i].intent = "handoff_request"
        /\ messagesByGoddess[activeTab][i].suggested # NULL }

\* C27, as claimed: while a handoff is pending, at most one message of the
\* open tab renders the confirm and decline buttons, and every message that
\* does names the pending suggestion.
C27_OneCardForPending ==
    pendingRecommendation # NULL =>
        /\ Cardinality(actionableCards) <= 1
        /\ \A i \in actionableCards :
             messagesByGoddess[activeTab][i].suggested = pendingRecommendation

====
